---- MODULE Spec2Model ----
(***************************************************************************)
(* Realtime layer of the eco11 backend (src/backend/server.ts): the        *)
(* socket authentication middleware, the per-connection event handlers,    *)
(* the room membership kept by the socket server, and the fan-out of       *)
(* published events to the connections.                                    *)
(*                                                                         *)
(* The server is one event loop: a handler runs alone up to its next       *)
(* await, where it is suspended and other events may be served before it   *)
(* resumes.  Membership is the socket server's: a socket is in the room    *)
(* of its own id and in the rooms it joined, and leaves them all when it   *)
(* closes.                                                                 *)
(*                                                                         *)
(* Numbers: emission factors and impacts are counted in hundredths         *)
(* (0.2 kg/km is 20), so that the products stay integers.                  *)
(*                                                                         *)
(* Three specifications share the actions of the handlers.  Spec is the    *)
(* server alone: what a step writes is recorded in out.  SpecTransport     *)
(* follows the packets of the first emits over the transports of the       *)
(* first connections, which may fail, on to the clients.  SpecFootprint    *)
(* has one connection report activities of every category and unit, and    *)
(* SpecRooms has the clients name rooms that spell private ones.           *)
(*                                                                         *)
(* The REST routes of the same server work on the tables of the store      *)
(* (src/unnamed/part_002): a route is suspended at its awaited write, the  *)
(* store executes the statement under the constraints of the tables, and   *)
(* the route resumes with the result.  SpecSignup has the signups,         *)
(* SpecPosts the routes of posts and comments, SpecLikes those of likes.   *)
(*                                                                         *)
(* The store of the frontend (src/vitereact/src/store/main.tsx) is         *)
(* followed in SpecStore, and in SpecStoreFair with every request of the   *)
(* store settled in the end.                                               *)
(***************************************************************************)
EXTENDS Integers, Sequences, FiniteSets, TLC

\* ------------------------------------------------------------------ bounds
MaxConn == 3        \* connections the server accepts
MaxInflight == 1    \* log_activity handlers suspended at the same time
MaxPublish == 2     \* emits followed on the transport
MaxWired == 2       \* connections followed on the transport

Conn == 1..MaxConn

\* ------------------------------------------------------------- input sets
\* rows of the users table; "ghost" has a well-signed token but no row
KnownUsers == {"u1", "u2"}
NoUser == "none"

\* socket.handshake.auth.token
Credentials ==
    { [kind |-> "missing",   user_id |-> NoUser],
      [kind |-> "malformed", user_id |-> NoUser],
      [kind |-> "jwt",       user_id |-> "u1"],
      [kind |-> "jwt",       user_id |-> "u2"],
      [kind |-> "jwt",       user_id |-> "ghost"] }

\* a payload that is null or undefined: destructuring it throws
NullData == [null |-> TRUE]
IsNull(data) == "null" \in DOMAIN data

\* webinar_id as the client sends it: a number or a string
WebinarIds == { [num |-> 42], [str |-> "42"] }

ActivityReports ==
    { [category |-> "transportation", quantity |-> 10, unit |-> "car_km",
       description |-> "commute"],
      [category |-> "transportation", quantity |-> -5, unit |-> "car_km",
       description |-> "commute"] }

GoalUpdates == { [category |-> "energy", target |-> 5, timeframe |-> "month"] }

\* the payload may carry a sender_id of the client's choosing
WebinarMessages ==
    { [webinar_id |-> w, message_text |-> "hi", sender_id |-> "u2"] :
        w \in WebinarIds }

ChallengeUpdates == { [challenge_id |-> "c1"] }

\* Math.min(100, Math.random() * 100), in whole percent
ProgressValues == {0, 99}

\* ------------------------------------------------------------------ state
VARIABLES
    state,      \* Conn -> lifecycle state of the connection
    user,       \* Conn -> socket.user.id, NoUser while unset
    rooms,      \* adapter.rooms: room name -> set of connections
    sids,       \* adapter.sids: connected socket -> set of room names
    inflight,   \* log_activity handlers suspended at an await, oldest first
    out         \* what the last step did: the request it served, the event it
                \* emitted and how many copies of it each connection was sent

vars == <<state, user, rooms, sids, inflight, out>>

\* the transport under the sockets, followed in SpecTransport only
VARIABLES
    wire,       \* Conn -> packets written to the connection and not yet
                \* received by its client, oldest first
    broken,     \* connections whose transport has failed while the server has
                \* not yet closed the socket
    serial,     \* number of emits made so far
    got         \* Conn -> the packets its client received, oldest first

tvars == <<wire, broken, serial, got>>

\* the REST routes and the store behind them
VARIABLES
    users,      \* rows of the users table
    posts,      \* rows of the posts table
    comments,   \* rows of the comments table
    likes,      \* rows of the likes table
    pending,    \* requests suspended at an await of pool.query
    served,     \* number of requests received so far
    res         \* what the last step of a route answered and emitted

rvars == <<users, posts, comments, likes, pending, served, res>>

\* the store of the frontend (src/vitereact/src/store/main.tsx)
VARIABLES
    currentUser,            \* the user of the session or Null
    authToken,              \* the token of the session or Null
    authenticationStatus,   \* [isAuthenticated, isLoading]
    calls,                  \* requests of the store still in flight
    storage,                \* what persist keeps under 'eco11-store'
    app                     \* "created" until App has mounted, then "started"

fvars == <<currentUser, authToken, authenticationStatus, calls, storage, app>>

\* --------------------------------------------------------------- room names
\* template literal `${x}`
ToStr(x) == IF "num" \in DOMAIN x THEN ToString(x.num) ELSE x.str

UserRoom(id) == "user_" \o id

\* the room is named by the id as it is sent
WebinarRoomUnprefixed(webinar_id) == ToStr(webinar_id)

WebinarRoom(webinar_id) == "webinar_" \o ToStr(webinar_id)
\* every socket is in the room named by its own id
SocketRoom(c) == "sid_" \o ToString(c)

\* ------------------------------------------------- membership (the adapter)
MembersOf(rm, r) == IF r \in DOMAIN rm THEN rm[r] ELSE {}

RoomsOf(sd, c) == IF c \in DOMAIN sd THEN sd[c] ELSE {}

\* a room the socket is in already is left instead
AddAllRoomsToggle(rm, c, rs) ==
    [r \in DOMAIN rm \cup rs |->
        IF r \in rs
        THEN IF c \in MembersOf(rm, r)
             THEN MembersOf(rm, r) \ {c}
             ELSE MembersOf(rm, r) \cup {c}
        ELSE rm[r]]

\* adapter.addAll(id, rooms)
AddAllRooms(rm, c, rs) ==
    [r \in DOMAIN rm \cup rs |->
        IF r \in rs THEN MembersOf(rm, r) \cup {c} ELSE rm[r]]

AddAllSids(sd, c, rs) ==
    [d \in DOMAIN sd \cup {c} |->
        IF d = c THEN RoomsOf(sd, c) \cup rs ELSE sd[d]]

\* the member is removed and the room kept, empty or not
DelRoomsKeepEmpty(rm, c, r) ==
    IF r \notin DOMAIN rm THEN rm ELSE [rm EXCEPT ![r] = rm[r] \ {c}]

\* the member stays in the room
DelRoomsNoop(rm, c, r) == rm

\* the room is deleted whoever is in it
DelRoomsDropRoom(rm, c, r) == [x \in DOMAIN rm \ {r} |-> rm[x]]

\* adapter.del(id, room): the room is deleted when its last member leaves
DelRooms(rm, c, r) ==
    IF r \notin DOMAIN rm THEN rm
    ELSE IF rm[r] \ {c} = {}
         THEN [x \in DOMAIN rm \ {r} |-> rm[x]]
         ELSE [rm EXCEPT ![r] = rm[r] \ {c}]

\* the socket's own set is left as it was
DelSidsKeep(sd, c, r) == sd

DelSids(sd, c, r) ==
    IF c \in DOMAIN sd THEN [sd EXCEPT ![c] = sd[c] \ {r}] ELSE sd

\* adapter.delAll(id)
DelAllRooms(rm, c) ==
    LET keep == { r \in DOMAIN rm : rm[r] \ {c} # {} }
    IN  [r \in keep |-> rm[r] \ {c}]

\* the closed socket stays known to the adapter
DelAllSidsKeep(sd, c) == sd

DelAllSids(sd, c) == [d \in DOMAIN sd \ {c} |-> sd[d]]

\* ----------------------------------------------------------------- fan-out
\* io.emit: every socket of the namespace
GlobalScope == DOMAIN sids

\* io.to(room).emit
RoomScope(r) == MembersOf(rooms, r)

\* a closed socket is written all the same
SocketScopeAlways(c) == {c}

\* the emit goes to the room of the sender's user
SocketScopeUser(c) == RoomScope(UserRoom(user[c]))

\* socket.emit: the socket itself; a closed socket drops the packet
SocketScope(c) == IF c \in DOMAIN sids THEN {c} ELSE {}

\* a copy for every room the connection is in
CopiesPerRoom(to) ==
    [c \in Conn |-> IF c \in to THEN Cardinality(RoomsOf(sids, c)) ELSE 0]

\* the event is written once to every connection of the scope
Copies(to) == [c \in Conn |-> IF c \in to THEN 1 ELSE 0]

NoEvent == [name |-> "none"]

\* from: the socket whose handler ran; was: the rooms it was in before the step
Emission(c, req, phase, ev, to) ==
    [from |-> c, req |-> req, phase |-> phase, ev |-> ev, to |-> Copies(to),
     was |-> RoomsOf(sids, c)]

NoEmission ==
    [from |-> 0, req |-> [name |-> "none"], phase |-> "none", ev |-> NoEvent,
     to |-> Copies({}), was |-> {}]

Recipients(o) == { c \in Conn : o.to[c] > 0 }

\* ------------------------------------------------------- the seeded store
\* the accounts of KnownUsers
SeedUsers ==
    { [id |-> "u1", username |-> "john_doe", email |-> "john@example.com"],
      [id |-> "u2", username |-> "jane_smith", email |-> "jane@example.com"] }

SeedPosts == { [id |-> "post1", user_id |-> "u1", title |-> "First Post"] }

SeedComments ==
    { [id |-> "comment1", user_id |-> "u1", post_id |-> "post1",
       content |-> "Great post!"] }

\* a step that answers no request and emits nothing
NoAnswer ==
    [n |-> 0, route |-> "none", user |-> NoUser, status |-> 0,
     emit |-> NoEvent]

\* ------------------------------------------------ the store of the frontend
Null == "null"

\* the state the store is created with
InitialState ==
    [currentUser |-> Null, authToken |-> Null,
     authenticationStatus |-> [isAuthenticated |-> FALSE, isLoading |-> TRUE]]

\* nothing is kept under the name of the store yet
NoItem == [none |-> TRUE]

\* partialize: what persist keeps of a state
Partialize(st) ==
    [currentUser |-> st.currentUser, authToken |-> st.authToken,
     authenticationStatus |->
        [isAuthenticated |-> st.authenticationStatus.isAuthenticated,
         isLoading |-> FALSE]]

\* the state of a store that is created while item is kept under its name:
\* persist merges the item over the initial state
Hydrated(item) ==
    IF "none" \in DOMAIN item THEN InitialState ELSE item

\* ------------------------------------------------------------------- Init
Init ==
    /\ state = [c \in Conn |-> "Unauthenticated"]
    /\ user = [c \in Conn |-> NoUser]
    /\ rooms = <<>>
    /\ sids = <<>>
    /\ inflight = <<>>
    /\ out = NoEmission
    /\ wire = [c \in Conn |-> <<>>]
    /\ broken = {}
    /\ serial = 0
    /\ got = [c \in Conn |-> <<>>]
    /\ users = SeedUsers
    /\ posts = SeedPosts
    /\ comments = SeedComments
    /\ likes = {}
    /\ pending = {}
    /\ served = 0
    /\ res = NoAnswer
    /\ currentUser = Hydrated(NoItem).currentUser
    /\ authToken = Hydrated(NoItem).authToken
    /\ authenticationStatus = Hydrated(NoItem).authenticationStatus
    /\ calls = {}
    /\ storage = Partialize(Hydrated(NoItem))
    /\ app = "created"

\* ------------------------------------------------- authentication middleware
AuthError == "AuthError"

\* the middleware without the lookup of the user
ValidateCredentialNoLookup(cred) ==
    IF cred.kind = "missing" THEN AuthError
    ELSE IF cred.kind # "jwt" THEN AuthError
    ELSE cred.user_id

\* io.use: the token must be present, verify under the secret, and name a row
\* of the users table; the result is the user's id or AuthError
ValidateCredential(cred) ==
    IF cred.kind = "missing" THEN AuthError
    ELSE IF cred.kind # "jwt" THEN AuthError
    ELSE IF cred.user_id \notin KnownUsers THEN AuthError
    ELSE cred.user_id

\* every packet is dispatched
AcceptsAlways(c) == TRUE

\* the handlers exist only on a socket that passed the middleware, and the
\* server dispatches no packet of a closed socket
Accepts(c) == state[c] = "Authenticated"

\* the connection handler without its socket.join
ConnectRoomsOwnOnly(c, id) == {SocketRoom(c)}

\* rooms a socket is in when its connection handler has run
ConnectRooms(c, id) == {SocketRoom(c), UserRoom(id)}

\* ---------------------------------------------------------------- events
ConnectError == [name |-> "connect_error", message |-> "Authentication error"]

ErrorEvent(msg) == [name |-> "error", message |-> msg]

\* emissionFactors, in hundredths
EmissionFactors ==
    [transportation |-> [car_km |-> 20, bus_km |-> 5, train_km |-> 3,
                         flight_km |-> 15],
     energy |-> [electricity_kwh |-> 40, gas_m3 |-> 200,
                 heating_oil_l |-> 250],
     diet |-> [beef_kg |-> 6000, chicken_kg |-> 600, vegetables_kg |-> 200,
               dairy_l |-> 320]]

\* The values of the computation are tagged: [num |-> n] is a number (a
\* factor or an impact in hundredths), [fn |-> name] a function object,
\* NaN the number that is not one.  A field the payload does not have reads
\* as undefined; as a property key it is the string "undefined".
NaN == [nan |-> TRUE]
Undefined == "undefined"
Field(data, f) == IF f \in DOMAIN data THEN data[f] ELSE Undefined

\* quantity of the payload
Quantity(data) ==
    IF "quantity" \in DOMAIN data THEN [num |-> data.quantity]
    ELSE [undefined |-> TRUE]

\* some of the properties that every object inherits from Object.prototype
Inherited == {"constructor", "toString", "valueOf", "hasOwnProperty"}

\* obj[key] of an object literal: its own property, or the inherited one
Lookup(obj, key) ==
    IF key \in DOMAIN obj THEN [own |-> obj[key]]
    ELSE IF key \in Inherited THEN [fn |-> key]
    ELSE [undefined |-> TRUE]

\* the default factor for every pair
FactorOfDefault(activity_type, unit) == [num |-> 100]

\* emissionFactors[activity_type]?.[unit] || 1: a property that is found, own
\* or inherited, and is truthy is the factor; a function has the inherited
\* properties too
FactorOf(activity_type, unit) ==
    LET row == Lookup(EmissionFactors, activity_type) IN
    IF "own" \in DOMAIN row
    THEN LET cell == Lookup(row.own, unit) IN
         IF "own" \in DOMAIN cell THEN [num |-> cell.own]
         ELSE IF "fn" \in DOMAIN cell THEN cell
         ELSE [num |-> 100]
    ELSE IF "fn" \in DOMAIN row
    THEN IF unit \in Inherited THEN [fn |-> unit] ELSE [num |-> 100]
    ELSE [num |-> 100]

\* quantity * factor
Times(quantity, factor) ==
    IF "num" \in DOMAIN quantity /\ "num" \in DOMAIN factor
    THEN [num |-> quantity.num * factor.num]
    ELSE NaN

\* co2_equivalent_kg of calculateCarbonFootprint
CalculateCarbonFootprint(activity_type, quantity, unit) ==
    Times(quantity, FactorOf(activity_type, unit))

ActivityEvent(h) ==
    [name |-> "activity.logged", user_id |-> user[h.conn],
     category |-> Field(h.data, "category"), impact |-> h.impact,
     description |-> Field(h.data, "description")]

RecommendationEvent(h) ==
    [name |-> "recommendation.updated", user_id |-> user[h.conn],
     category |-> Field(h.data, "category")]

GoalEvent(c, data) ==
    [name |-> "goal.updated", user_id |-> user[c],
     category |-> data.category, target |-> data.target,
     timeframe |-> data.timeframe]

ProgressEvent(c, data, p) ==
    [name |-> "challenge.progress", user_id |-> user[c],
     challenge_id |-> data.challenge_id, progress |-> p]

\* the sender taken from the payload
MessageEventFromPayload(c, data) ==
    [name |-> "new_webinar_message", webinar_id |-> data.webinar_id,
     message_text |-> data.message_text, sender_id |-> data.sender_id]

MessageEvent(c, data) ==
    [name |-> "new_webinar_message", webinar_id |-> data.webinar_id,
     message_text |-> data.message_text, sender_id |-> user[c]]

JoinedEvent(data) ==
    [name |-> "webinar_joined", webinar_id |-> data.webinar_id]

LeftEvent(data) ==
    [name |-> "webinar_left", webinar_id |-> data.webinar_id]

\* goal.updated sent with io.emit
GoalScopeEveryone(c) == GlobalScope

\* scope of goal.updated: io.to(`user_${socket.user.id}`)
GoalScope(c) == RoomScope(UserRoom(user[c]))

\* new_webinar_message sent with io.emit
MessageScopeEveryone(data) == GlobalScope

\* scope of new_webinar_message: io.to(`webinar_${webinar_id}`)
MessageScope(data) == RoomScope(WebinarRoom(data.webinar_id))

Request(name, data) == [name |-> name, data |-> data]

\* ---------------------------------------------------------------- actions
\* A connection attempt: the middleware, then the connection handler up to the
\* registration of the event handlers.  An attempt the middleware turns down
\* leaves nothing behind on the server.  Connections are numbered in the order
\* in which they are accepted.
Connect(c, cred) ==
    /\ state[c] = "Unauthenticated"
    /\ \A d \in Conn : d < c => state[d] # "Unauthenticated"
    /\ LET id == ValidateCredential(cred) IN
       IF id = AuthError
       THEN /\ out' = Emission(c, Request("connect", cred), "connect",
                               ConnectError, {c})
            /\ UNCHANGED <<state, user, rooms, sids>>
       ELSE /\ user' = [user EXCEPT ![c] = id]
            /\ state' = [state EXCEPT ![c] = "Authenticated"]
            /\ rooms' = AddAllRooms(rooms, c, ConnectRooms(c, id))
            /\ sids' = AddAllSids(sids, c, ConnectRooms(c, id))
            /\ out' = Emission(c, Request("connect", cred), "connect",
                               NoEvent, {})
    /\ UNCHANGED inflight

\* The socket closes: it leaves every room, then the disconnect handler logs.
\* A closed socket is not closed again.
Disconnect(c) ==
    /\ state[c] \in {"Authenticated", "Disconnected"}
    /\ IF state[c] = "Authenticated"
       THEN /\ rooms' = DelAllRooms(rooms, c)
            /\ sids' = DelAllSids(sids, c)
            /\ state' = [state EXCEPT ![c] = "Disconnected"]
       ELSE UNCHANGED <<rooms, sids, state>>
    /\ out' = Emission(c, [name |-> "disconnect"], "disconnect", NoEvent, {})
    /\ UNCHANGED <<user, inflight>>

\* a packet of a connection that has no handlers, or is closed, is ignored
DropEvent(c) ==
    /\ ~Accepts(c)
    /\ out' = Emission(c, [name |-> "event"], "accept", NoEvent, {})
    /\ UNCHANGED <<state, user, rooms, sids, inflight>>

\* log_activity up to its first await
LogActivity(c, data) ==
    /\ Accepts(c)
    /\ IF IsNull(data)
       THEN /\ out' = Emission(c, Request("log_activity", data), "accept",
                        ErrorEvent("Failed to log activity"), SocketScope(c))
            /\ UNCHANGED inflight
       ELSE /\ Len(inflight) < MaxInflight
            /\ inflight' = Append(inflight,
                  [conn |-> c, pc |-> "calculated", data |-> data,
                   impact |-> CalculateCarbonFootprint(
                                  Field(data, "category"), Quantity(data),
                                  Field(data, "unit"))])
            /\ out' = Emission(c, Request("log_activity", data), "accept",
                               NoEvent, {})
    /\ UNCHANGED <<state, user, rooms, sids>>

Remove(q, i) == [j \in 1..(Len(q) - 1) |-> IF j < i THEN q[j] ELSE q[j + 1]]

\* log_activity from its first await to its second: the public feed
LogActivityPublish(i) ==
    /\ i \in DOMAIN inflight /\ inflight[i].pc = "calculated"
    /\ out' = Emission(inflight[i].conn,
                       Request("log_activity", inflight[i].data), "resume",
                       ActivityEvent(inflight[i]), GlobalScope)
    /\ inflight' = [inflight EXCEPT ![i].pc = "recommended"]
    /\ UNCHANGED <<state, user, rooms, sids>>

\* log_activity after its second await: the sender's recommendations
LogActivityRecommend(i) ==
    /\ i \in DOMAIN inflight /\ inflight[i].pc = "recommended"
    /\ out' = Emission(inflight[i].conn,
                       Request("log_activity", inflight[i].data), "resume",
                       RecommendationEvent(inflight[i]),
                       SocketScope(inflight[i].conn))
    /\ inflight' = Remove(inflight, i)
    /\ UNCHANGED <<state, user, rooms, sids>>

UpdateGoal(c, data) ==
    /\ Accepts(c)
    /\ out' = IF IsNull(data)
              THEN Emission(c, Request("update_goal", data), "accept",
                       ErrorEvent("Failed to update goal"), SocketScope(c))
              ELSE Emission(c, Request("update_goal", data), "accept",
                       GoalEvent(c, data), GoalScope(c))
    /\ UNCHANGED <<state, user, rooms, sids, inflight>>

UpdateChallengeProgress(c, data, p) ==
    /\ Accepts(c)
    /\ out' = IF IsNull(data)
              THEN Emission(c, Request("update_challenge_progress", data),
                       "accept",
                       ErrorEvent("Failed to update challenge progress"),
                       SocketScope(c))
              ELSE Emission(c, Request("update_challenge_progress", data),
                       "accept", ProgressEvent(c, data, p), GlobalScope)
    /\ UNCHANGED <<state, user, rooms, sids, inflight>>

WebinarMessage(c, data) ==
    /\ Accepts(c)
    /\ out' = IF IsNull(data)
              THEN Emission(c, Request("webinar_message", data), "accept",
                       ErrorEvent("Failed to send message"), SocketScope(c))
              ELSE Emission(c, Request("webinar_message", data), "accept",
                       MessageEvent(c, data), MessageScope(data))
    /\ UNCHANGED <<state, user, rooms, sids, inflight>>

JoinWebinar(c, data) ==
    /\ Accepts(c)
    /\ rooms' = AddAllRooms(rooms, c, {WebinarRoom(data.webinar_id)})
    /\ sids' = AddAllSids(sids, c, {WebinarRoom(data.webinar_id)})
    /\ out' = Emission(c, Request("join_webinar", data), "accept",
                       JoinedEvent(data), SocketScope(c))
    /\ UNCHANGED <<state, user, inflight>>

LeaveWebinar(c, data) ==
    /\ Accepts(c)
    /\ rooms' = DelRooms(rooms, c, WebinarRoom(data.webinar_id))
    /\ sids' = DelSids(sids, c, WebinarRoom(data.webinar_id))
    /\ out' = Emission(c, Request("leave_webinar", data), "accept",
                       LeftEvent(data), SocketScope(c))
    /\ UNCHANGED <<state, user, inflight>>

\* a step of the socket server that is followed no further than out
ServerOnly == UNCHANGED <<tvars, rvars, fvars>>

\* the server alone: what a step writes is recorded in out and followed no further
Next ==
    \/ \E c \in Conn, cred \in Credentials : Connect(c, cred) /\ ServerOnly
    \/ \E c \in Conn : Disconnect(c) /\ ServerOnly
    \/ \E c \in Conn : DropEvent(c) /\ ServerOnly
    \/ \E c \in Conn, data \in ActivityReports \cup {NullData} :
          LogActivity(c, data) /\ ServerOnly
    \/ \E i \in DOMAIN inflight : LogActivityPublish(i) /\ ServerOnly
    \/ \E i \in DOMAIN inflight : LogActivityRecommend(i) /\ ServerOnly
    \/ \E c \in Conn, data \in GoalUpdates \cup {NullData} :
          UpdateGoal(c, data) /\ ServerOnly
    \/ \E c \in Conn, data \in ChallengeUpdates, p \in ProgressValues :
          UpdateChallengeProgress(c, data, p) /\ ServerOnly
    \/ \E c \in Conn : UpdateChallengeProgress(c, NullData, 0) /\ ServerOnly
    \/ \E c \in Conn, data \in WebinarMessages \cup {NullData} :
          WebinarMessage(c, data) /\ ServerOnly
    \/ \E c \in Conn, w \in WebinarIds :
          JoinWebinar(c, [webinar_id |-> w]) /\ ServerOnly
    \/ \E c \in Conn, w \in WebinarIds :
          LeaveWebinar(c, [webinar_id |-> w]) /\ ServerOnly

Spec == Init /\ [][Next]_vars

TypeOK ==
    /\ state \in [Conn -> {"Unauthenticated", "Authenticated", "Disconnected"}]
    /\ user \in [Conn -> KnownUsers \cup {NoUser}]
    /\ DOMAIN sids \subseteq Conn
    /\ Len(inflight) <= MaxInflight

\* ------------------------------------------------------------ the transport
\* one packet of an emit: the serial of the emit and the name of its event
Packet(n, ev) == [id |-> n, name |-> ev.name]

\* the emission o is written to sockets: an event of a handler (the answer to
\* a handshake that was turned down goes to no socket)
OnTransport(o) == o.ev # NoEvent /\ o.phase # "connect"

\* the fan-out stops at the first socket of the scope that cannot be written
DeliverableUntilFailure(o, c) ==
    /\ o.to[c] > 0
    /\ \A d \in Conn : (d <= c /\ o.to[d] > 0) => d \notin broken

\* the broadcast writes to each socket of the scope on its own, and a write
\* to a transport that is not open is dropped without an error
Deliverable(o, c) == o.to[c] > 0 /\ c \notin broken

\* the copies of the packet written to c
Written(o, c, n) == [i \in 1..o.to[c] |-> Packet(n, o.ev)]

\* what the emit of a step puts on the wires
Transmit ==
    /\ IF OnTransport(out')
       THEN /\ serial < MaxPublish
            /\ serial' = serial + 1
            /\ wire' = [c \in Conn |->
                          IF Deliverable(out', c)
                          THEN wire[c] \o Written(out', c, serial + 1)
                          ELSE wire[c]]
       ELSE UNCHANGED <<wire, serial>>
    /\ UNCHANGED <<broken, got, rvars, fvars>>

\* the close of the socket ends its transport; what was on the wire is lost
Unplug(c) ==
    /\ wire' = [wire EXCEPT ![c] = <<>>]
    /\ got' = [got EXCEPT ![c] = <<>>]
    /\ broken' = broken \ {c}
    /\ UNCHANGED <<serial, rvars, fvars>>

\* the transport of an open socket fails; the server has not closed it yet
TransportFail(c) ==
    /\ c \in DOMAIN sids
    /\ c \notin broken
    /\ broken' = broken \cup {c}
    /\ UNCHANGED <<vars, wire, serial, got, rvars, fvars>>

\* the packet taken is the newest
NextPacketNewest(q) == Len(q)

\* the transport is a queue: the client is handed the oldest packet
NextPacket(q) == 1

\* the client of c receives a packet
Receive(c) ==
    /\ wire[c] # <<>>
    /\ got' = [got EXCEPT ![c] = Append(@, wire[c][NextPacket(wire[c])])]
    /\ wire' = [wire EXCEPT ![c] = Remove(@, NextPacket(@))]
    /\ UNCHANGED <<vars, broken, serial, rvars, fvars>>

\* the server and the transport under it
Wired == 1..MaxWired

NextTransport ==
    \/ \E c \in Wired, cred \in Credentials : Connect(c, cred) /\ Transmit
    \/ \E c \in Wired : Disconnect(c) /\ Unplug(c)
    \/ \E c \in Wired : DropEvent(c) /\ Transmit
    \/ \E c \in Wired, data \in ActivityReports \cup {NullData} :
          LogActivity(c, data) /\ Transmit
    \/ \E i \in DOMAIN inflight : LogActivityPublish(i) /\ Transmit
    \/ \E i \in DOMAIN inflight : LogActivityRecommend(i) /\ Transmit
    \/ \E c \in Wired, data \in GoalUpdates \cup {NullData} :
          UpdateGoal(c, data) /\ Transmit
    \/ \E c \in Wired, data \in ChallengeUpdates, p \in ProgressValues :
          UpdateChallengeProgress(c, data, p) /\ Transmit
    \/ \E c \in Wired : UpdateChallengeProgress(c, NullData, 0) /\ Transmit
    \/ \E c \in Wired, data \in WebinarMessages \cup {NullData} :
          WebinarMessage(c, data) /\ Transmit
    \/ \E c \in Wired, w \in WebinarIds :
          JoinWebinar(c, [webinar_id |-> w]) /\ Transmit
    \/ \E c \in Wired, w \in WebinarIds :
          LeaveWebinar(c, [webinar_id |-> w]) /\ Transmit
    \/ \E c \in Wired : TransportFail(c)
    \/ \E c \in Wired : Receive(c)

SpecTransport == Init /\ [][NextTransport]_<<vars, tvars>>

\* ------------------------------------------------------ the impact of reports
\* categories and units of the table, and names that are not in it
FootprintCategories == DOMAIN EmissionFactors \cup {"shopping", "constructor"}

FootprintUnits ==
    UNION { DOMAIN EmissionFactors[a] : a \in DOMAIN EmissionFactors }
       \cup {"items", "toString"}

FootprintQuantities == {1, 10}

\* reports with every field, and reports that lack one
FootprintReports ==
    { [category |-> a, quantity |-> q, unit |-> u, description |-> "commute"] :
         a \in FootprintCategories, q \in FootprintQuantities,
         u \in FootprintUnits }
    \cup { [quantity |-> 10, unit |-> "car_km", description |-> "commute"],
           [category |-> "transportation", unit |-> "car_km",
            description |-> "commute"],
           [category |-> "transportation", quantity |-> 10,
            description |-> "commute"] }

\* the first connection reports activities of every kind
NextFootprint ==
    \/ \E cred \in Credentials : Connect(1, cred) /\ ServerOnly
    \/ \E data \in FootprintReports : LogActivity(1, data) /\ ServerOnly
    \/ \E i \in DOMAIN inflight : LogActivityPublish(i) /\ ServerOnly
    \/ \E i \in DOMAIN inflight : LogActivityRecommend(i) /\ ServerOnly

SpecFootprint == Init /\ [][NextFootprint]_vars

\* the pair is in the table of emission factors
InTable(activity_type, unit) ==
    /\ activity_type \in DOMAIN EmissionFactors
    /\ unit \in DOMAIN EmissionFactors[activity_type]

\* ------------------------------------------------- rooms named by the client
\* webinar ids that spell the names of private rooms
ProbeIds == { [num |-> 42], [str |-> "user_u1"], [str |-> "user_u2"] }

\* connections that come, go, and join and leave rooms of any name
NextRooms ==
    \/ \E c \in Conn, cred \in Credentials : Connect(c, cred) /\ ServerOnly
    \/ \E c \in Conn : Disconnect(c) /\ ServerOnly
    \/ \E c \in Conn, w \in ProbeIds :
          JoinWebinar(c, [webinar_id |-> w]) /\ ServerOnly
    \/ \E c \in Conn, w \in ProbeIds :
          LeaveWebinar(c, [webinar_id |-> w]) /\ ServerOnly

SpecRooms == Init /\ [][NextRooms]_vars

\* ------------------------------------------------------------ the REST routes
\* A route runs alone up to an await of pool.query, where it is suspended
\* while the store executes the statement; the statements of other requests
\* may be executed before the route resumes with the result.  The SELECTs a
\* route makes before its write are taken with its first step, the write is
\* a step of the store, and the rest of the route is its last step.
MaxRequests == 3    \* requests the routes receive
MaxPending == 2     \* requests suspended at a query at the same time

\* uuidv4() of request n
Uuid(n) == "id" \o ToString(n)

PostRefs == {"post1"} \cup { Uuid(n) : n \in 1..MaxRequests }
CommentRefs == {"comment1"} \cup { Uuid(n) : n \in 1..MaxRequests }

\* req.body of POST /api/posts: the second has no title
PostBodies ==
    { [user_id |-> u, title |-> "Hello", content |-> "text"] : u \in KnownUsers }
    \cup { [user_id |-> u, content |-> "No title"] : u \in KnownUsers }

\* req.body of PATCH /api/posts/:post_id
PostUpdates == { [title |-> "Edited"], [title |-> ""], <<>> }

\* req.body of POST /api/posts/:post_id/comments
CommentBodies ==
    { [user_id |-> u, content |-> "Nice"] : u \in KnownUsers }
    \cup { [user_id |-> "u1"] }

\* req.body of PATCH /api/comments/:comment_id
CommentUpdates == { [content |-> "Edited"], [content |-> ""], <<>> }

\* req.body of POST /api/auth/signup: names and addresses taken and free
SignupBodies ==
    { [username |-> u, email |-> e, password_hash |-> "password123"] :
        u \in {"john_doe", "ann", "bob"},
        e \in {"john@example.com", "ann@example.com", "bob@example.com"} }
    \cup { [username |-> "ann", email |-> "not-an-address",
            password_hash |-> "password123"],
           [username |-> "ann", email |-> "ann@example.com"] }

\* ------------------------------------------------------------- the tables
Store ==
    [users |-> users, posts |-> posts, comments |-> comments, likes |-> likes]

\* a statement that violates a constraint throws and changes nothing
Threw(db) == [threw |-> TRUE, rows |-> {}, db |-> db]

\* RETURNING *
Returned(rows, db) == [threw |-> FALSE, rows |-> rows, db |-> db]

\* users without its UNIQUE constraints
InsertIntoUsersNoUnique(db, row) ==
    IF \E r \in db.users : r.id = row.id
    THEN Threw(db)
    ELSE Returned({row}, [db EXCEPT !.users = @ \cup {row}])

\* users: id is the key, username and email are UNIQUE
InsertIntoUsers(db, row) ==
    IF \E r \in db.users :
          r.id = row.id \/ r.username = row.username \/ r.email = row.email
    THEN Threw(db)
    ELSE Returned({row}, [db EXCEPT !.users = @ \cup {row}])

\* posts: id is the key, user_id references users
InsertIntoPosts(db, row) ==
    IF \/ \E r \in db.posts : r.id = row.id
       \/ \A u \in db.users : u.id # row.user_id
    THEN Threw(db)
    ELSE Returned({row}, [db EXCEPT !.posts = @ \cup {row}])

\* UPDATE posts SET title WHERE id RETURNING *: no row is no error
UpdatePosts(db, id, title) ==
    LET hit == { r \in db.posts : r.id = id }
        new == { [r EXCEPT !.title = title] : r \in hit }
    IN Returned(new, [db EXCEPT !.posts = (@ \ hit) \cup new])

\* DELETE FROM posts WHERE id: comments and likes reference posts without
\* ON DELETE CASCADE, so a post that has any cannot be deleted
DeleteFromPosts(db, id) ==
    IF \/ \E c \in db.comments : c.post_id = id
       \/ \E l \in db.likes : l.post_id = id
    THEN Threw(db)
    ELSE Returned({}, [db EXCEPT !.posts = { r \in @ : r.id # id }])

\* comments: id is the key, post_id references posts, user_id users
InsertIntoComments(db, row) ==
    IF \/ \E r \in db.comments : r.id = row.id
       \/ \A p \in db.posts : p.id # row.post_id
       \/ \A u \in db.users : u.id # row.user_id
    THEN Threw(db)
    ELSE Returned({row}, [db EXCEPT !.comments = @ \cup {row}])

UpdateComments(db, id, content) ==
    LET hit == { r \in db.comments : r.id = id }
        new == { [r EXCEPT !.content = content] : r \in hit }
    IN Returned(new, [db EXCEPT !.comments = (@ \ hit) \cup new])

DeleteFromComments(db, id) ==
    Returned({}, [db EXCEPT !.comments = { r \in @ : r.id # id }])

\* likes without its primary key
InsertIntoLikesNoKey(db, row) ==
    IF \A p \in db.posts : p.id # row.post_id
    THEN Threw(db)
    ELSE Returned({row}, [db EXCEPT !.likes = @ \cup {row}])

\* likes: (user_id, post_id) is the key, post_id references posts
InsertIntoLikes(db, row) ==
    IF \/ \E r \in db.likes :
             r.user_id = row.user_id /\ r.post_id = row.post_id
       \/ \A p \in db.posts : p.id # row.post_id
    THEN Threw(db)
    ELSE Returned({row}, [db EXCEPT !.likes = @ \cup {row}])

DeleteFromLikes(db, user_id, post_id) ==
    Returned({}, [db EXCEPT !.likes =
        { r \in @ : ~(r.user_id = user_id /\ r.post_id = post_id) }])

\* pool.query(stmt) on the tables db
Run(stmt, db) ==
    CASE stmt.op = "INSERT users" -> InsertIntoUsers(db, stmt.row)
      [] stmt.op = "INSERT posts" -> InsertIntoPosts(db, stmt.row)
      [] stmt.op = "UPDATE posts" -> UpdatePosts(db, stmt.id, stmt.title)
      [] stmt.op = "DELETE posts" -> DeleteFromPosts(db, stmt.id)
      [] stmt.op = "INSERT comments" -> InsertIntoComments(db, stmt.row)
      [] stmt.op = "UPDATE comments" -> UpdateComments(db, stmt.id, stmt.content)
      [] stmt.op = "DELETE comments" -> DeleteFromComments(db, stmt.id)
      [] stmt.op = "INSERT likes" -> InsertIntoLikes(db, stmt.row)
      [] stmt.op = "DELETE likes" ->
            DeleteFromLikes(db, stmt.user_id, stmt.post_id)

\* ------------------------------------------------------- steps of a route
NotRun == [done |-> FALSE, threw |-> FALSE, rows |-> {}]

\* the request is answered; io.emit(ev) comes before the answer if there is one
Answer(n, route, id, status, ev) ==
    [n |-> n, route |-> route, user |-> id, status |-> status, emit |-> ev]

\* the route returns in its first step
Reject(route, id, status) ==
    /\ res' = Answer(served + 1, route, id, status, NoEvent)
    /\ UNCHANGED <<users, posts, comments, likes, pending>>

\* the route is suspended at the await of its write
Await(route, id, stmt) ==
    /\ Cardinality(pending) < MaxPending
    /\ pending' = pending \cup
          { [n |-> served + 1, route |-> route, user |-> id, stmt |-> stmt,
             result |-> NotRun] }
    /\ res' = NoAnswer
    /\ UNCHANGED <<users, posts, comments, likes>>

\* the route resumes and returns
Finish(r, status, ev) ==
    /\ pending' = pending \ {r}
    /\ res' = Answer(r.n, r.route, r.user, status, ev)
    /\ UNCHANGED <<users, posts, comments, likes, served>>

Resumes(r, route) == r \in pending /\ r.route = route /\ r.result.done

\* a rejected query goes unnoticed
QueryThrewNever(r) == FALSE

\* the awaited query was rejected: the route continues in its catch
QueryThrew(r) == r.result.threw

\* the store executes the statement of a suspended request
Query(r) ==
    /\ r \in pending
    /\ ~r.result.done
    /\ LET q == Run(r.stmt, Store) IN
          /\ users' = q.db.users
          /\ posts' = q.db.posts
          /\ comments' = q.db.comments
          /\ likes' = q.db.likes
          /\ pending' = (pending \ {r}) \cup
                { [r EXCEPT !.result =
                      [done |-> TRUE, threw |-> q.threw, rows |-> q.rows]] }
    /\ res' = NoAnswer
    /\ UNCHANGED served

\* authenticateToken: 401 without a token, 403 for one that does not verify,
\* 401 for one whose user has no row; else req.user is the row
AuthenticateToken(cred) ==
    IF cred.kind = "missing" THEN [status |-> 401, id |-> NoUser]
    ELSE IF cred.kind # "jwt" THEN [status |-> 403, id |-> NoUser]
    ELSE IF \A u \in users : u.id # cred.user_id
         THEN [status |-> 401, id |-> NoUser]
    ELSE [status |-> 0, id |-> cred.user_id]

\* ------------------------------------------------------------------ signup
\* createUserInputSchema.parse
CreateUserInputParses(body) ==
    /\ {"username", "email", "password_hash"} \subseteq DOMAIN body
    /\ body.email # "not-an-address"

\* SELECT id FROM users WHERE email = $1 OR username = $2
Taken(body) ==
    \E u \in users : u.email = body.email \/ u.username = body.username

\* POST /api/auth/signup
Signup(body) ==
    /\ served < MaxRequests
    /\ served' = served + 1
    /\ IF ~CreateUserInputParses(body) THEN Reject("signup", NoUser, 500)
       ELSE IF Taken(body) THEN Reject("signup", NoUser, 400)
       ELSE Await("signup", NoUser,
                  [op |-> "INSERT users",
                   row |-> [id |-> Uuid(served + 1),
                            username |-> body.username,
                            email |-> body.email]])

SignupAnswer(r) ==
    /\ Resumes(r, "signup")
    /\ IF QueryThrew(r) THEN Finish(r, 500, NoEvent)
       ELSE Finish(r, 201, NoEvent)

\* ------------------------------------------------------------------- posts
PostEvent(name, row) == [name |-> name, row |-> row]

\* createPostInputSchema.parse
CreatePostInputParses(body) ==
    /\ {"user_id", "title", "content"} \subseteq DOMAIN body
    /\ body.title # ""

\* updatePostInputSchema.parse, and updateCommentInputSchema.parse
UpdateInputParses(body) ==
    \A f \in DOMAIN body : body[f] # ""

\* POST /api/posts
CreatePost(cred, body) ==
    /\ served < MaxRequests
    /\ served' = served + 1
    /\ LET auth == AuthenticateToken(cred) IN
          IF auth.status # 0 THEN Reject("create post", auth.id, auth.status)
          ELSE IF ~CreatePostInputParses(body)
               THEN Reject("create post", auth.id, 500)
          ELSE IF body.user_id # auth.id
               THEN Reject("create post", auth.id, 403)
          ELSE Await("create post", auth.id,
                     [op |-> "INSERT posts",
                      row |-> [id |-> Uuid(served + 1),
                               user_id |-> body.user_id,
                               title |-> body.title]])

CreatePostAnswer(r) ==
    /\ Resumes(r, "create post")
    /\ IF QueryThrew(r) THEN Finish(r, 500, NoEvent)
       ELSE Finish(r, 201, PostEvent("post.created", r.stmt.row))

\* the owner is not compared with req.user
OwnsAlways(row, id) == TRUE

\* existing.rows[0].user_id === req.user.id
Owns(row, id) == row.user_id = id

\* PATCH /api/posts/:post_id
UpdatePost(cred, post_id, body) ==
    /\ served < MaxRequests
    /\ served' = served + 1
    /\ LET auth == AuthenticateToken(cred)
           existingPost == { p \in posts : p.id = post_id }
       IN IF auth.status # 0 THEN Reject("update post", auth.id, auth.status)
          ELSE IF existingPost = {} THEN Reject("update post", auth.id, 404)
          ELSE IF \E p \in existingPost : ~Owns(p, auth.id)
               THEN Reject("update post", auth.id, 403)
          ELSE IF ~UpdateInputParses(body)
               THEN Reject("update post", auth.id, 500)
          ELSE IF "title" \notin DOMAIN body
               THEN Reject("update post", auth.id, 400)
          ELSE Await("update post", auth.id,
                     [op |-> "UPDATE posts", id |-> post_id,
                      title |-> body.title])

\* postEntitySchema.parse(result.rows[0]) throws when no row came back
UpdatePostAnswer(r) ==
    /\ Resumes(r, "update post")
    /\ IF QueryThrew(r) \/ r.result.rows = {} THEN Finish(r, 500, NoEvent)
       ELSE \E row \in r.result.rows :
               Finish(r, 200, PostEvent("post.updated", row))

\* DELETE /api/posts/:post_id
DeletePost(cred, post_id) ==
    /\ served < MaxRequests
    /\ served' = served + 1
    /\ LET auth == AuthenticateToken(cred)
           existingPost == { p \in posts : p.id = post_id }
       IN IF auth.status # 0 THEN Reject("delete post", auth.id, auth.status)
          ELSE IF existingPost = {} THEN Reject("delete post", auth.id, 404)
          ELSE IF \E p \in existingPost : ~Owns(p, auth.id)
               THEN Reject("delete post", auth.id, 403)
          ELSE Await("delete post", auth.id,
                     [op |-> "DELETE posts", id |-> post_id])

DeletePostAnswer(r) ==
    /\ Resumes(r, "delete post")
    /\ IF QueryThrew(r) THEN Finish(r, 500, NoEvent)
       ELSE Finish(r, 204, PostEvent("post.deleted",
                                     [id |-> r.stmt.id, user_id |-> r.user]))

\* ---------------------------------------------------------------- comments
\* createCommentInputSchema.parse({ ...req.body, post_id })
CreateCommentInputParses(body) ==
    /\ {"user_id", "content"} \subseteq DOMAIN body
    /\ body.content # ""

\* POST /api/posts/:post_id/comments
CreateComment(cred, post_id, body) ==
    /\ served < MaxRequests
    /\ served' = served + 1
    /\ LET auth == AuthenticateToken(cred) IN
          IF auth.status # 0 THEN Reject("create comment", auth.id, auth.status)
          ELSE IF ~CreateCommentInputParses(body)
               THEN Reject("create comment", auth.id, 500)
          ELSE IF body.user_id # auth.id
               THEN Reject("create comment", auth.id, 403)
          ELSE IF \A p \in posts : p.id # post_id
               THEN Reject("create comment", auth.id, 404)
          ELSE Await("create comment", auth.id,
                     [op |-> "INSERT comments",
                      row |-> [id |-> Uuid(served + 1),
                               user_id |-> body.user_id,
                               post_id |-> post_id,
                               content |-> body.content]])

CreateCommentAnswer(r) ==
    /\ Resumes(r, "create comment")
    /\ IF QueryThrew(r) THEN Finish(r, 500, NoEvent)
       ELSE Finish(r, 201, PostEvent("comment.created", r.stmt.row))

\* PATCH /api/comments/:comment_id
UpdateComment(cred, comment_id, body) ==
    /\ served < MaxRequests
    /\ served' = served + 1
    /\ LET auth == AuthenticateToken(cred)
           existingComment == { c \in comments : c.id = comment_id }
       IN IF auth.status # 0 THEN Reject("update comment", auth.id, auth.status)
          ELSE IF existingComment = {}
               THEN Reject("update comment", auth.id, 404)
          ELSE IF \E c \in existingComment : ~Owns(c, auth.id)
               THEN Reject("update comment", auth.id, 403)
          ELSE IF ~UpdateInputParses(body)
               THEN Reject("update comment", auth.id, 500)
          ELSE IF "content" \notin DOMAIN body
               THEN Reject("update comment", auth.id, 400)
          ELSE Await("update comment", auth.id,
                     [op |-> "UPDATE comments", id |-> comment_id,
                      content |-> body.content])

UpdateCommentAnswer(r) ==
    /\ Resumes(r, "update comment")
    /\ IF QueryThrew(r) \/ r.result.rows = {} THEN Finish(r, 500, NoEvent)
       ELSE \E row \in r.result.rows :
               Finish(r, 200, PostEvent("comment.updated", row))

\* DELETE /api/comments/:comment_id
DeleteComment(cred, comment_id) ==
    /\ served < MaxRequests
    /\ served' = served + 1
    /\ LET auth == AuthenticateToken(cred)
           existingComment == { c \in comments : c.id = comment_id }
       IN IF auth.status # 0 THEN Reject("delete comment", auth.id, auth.status)
          ELSE IF existingComment = {}
               THEN Reject("delete comment", auth.id, 404)
          ELSE IF \E c \in existingComment : ~Owns(c, auth.id)
               THEN Reject("delete comment", auth.id, 403)
          ELSE Await("delete comment", auth.id,
                     [op |-> "DELETE comments", id |-> comment_id])

DeleteCommentAnswer(r) ==
    /\ Resumes(r, "delete comment")
    /\ IF QueryThrew(r) THEN Finish(r, 500, NoEvent)
       ELSE Finish(r, 204, PostEvent("comment.deleted",
                                     [id |-> r.stmt.id, user_id |-> r.user]))

\* ------------------------------------------------------------------- likes
\* POST /api/posts/:post_id/likes; created_at is the time of the request
LikePost(cred, post_id) ==
    /\ served < MaxRequests
    /\ served' = served + 1
    /\ LET auth == AuthenticateToken(cred) IN
          IF auth.status # 0 THEN Reject("like", auth.id, auth.status)
          ELSE IF \A p \in posts : p.id # post_id
               THEN Reject("like", auth.id, 404)
          ELSE IF \E l \in likes : l.user_id = auth.id /\ l.post_id = post_id
               THEN Reject("like", auth.id, 400)
          ELSE Await("like", auth.id,
                     [op |-> "INSERT likes",
                      row |-> [user_id |-> auth.id, post_id |-> post_id,
                               created_at |-> served + 1]])

LikePostAnswer(r) ==
    /\ Resumes(r, "like")
    /\ IF QueryThrew(r) THEN Finish(r, 500, NoEvent)
       ELSE Finish(r, 201, PostEvent("like.created", r.stmt.row))

\* DELETE /api/posts/:post_id/likes
UnlikePost(cred, post_id) ==
    /\ served < MaxRequests
    /\ served' = served + 1
    /\ LET auth == AuthenticateToken(cred) IN
          IF auth.status # 0 THEN Reject("unlike", auth.id, auth.status)
          ELSE IF ~\E l \in likes : l.user_id = auth.id /\ l.post_id = post_id
               THEN Reject("unlike", auth.id, 404)
          ELSE Await("unlike", auth.id,
                     [op |-> "DELETE likes", user_id |-> auth.id,
                      post_id |-> post_id])

UnlikePostAnswer(r) ==
    /\ Resumes(r, "unlike")
    /\ IF QueryThrew(r) THEN Finish(r, 500, NoEvent)
       ELSE Finish(r, 204, PostEvent("like.deleted",
                        [user_id |-> r.stmt.user_id, post_id |-> r.stmt.post_id]))

\* a step of the routes: the sockets and the frontend are not involved
RoutesOnly == UNCHANGED <<vars, tvars, fvars>>

\* signups alone
NextSignup ==
    \/ \E body \in SignupBodies : Signup(body) /\ RoutesOnly
    \/ \E r \in pending : Query(r) /\ RoutesOnly
    \/ \E r \in pending : SignupAnswer(r) /\ RoutesOnly

SpecSignup == Init /\ [][NextSignup]_rvars

\* posts and their comments
NextPosts ==
    \/ \E cred \in Credentials, body \in PostBodies :
          CreatePost(cred, body) /\ RoutesOnly
    \/ \E cred \in Credentials, id \in PostRefs, body \in PostUpdates :
          UpdatePost(cred, id, body) /\ RoutesOnly
    \/ \E cred \in Credentials, id \in PostRefs :
          DeletePost(cred, id) /\ RoutesOnly
    \/ \E cred \in Credentials, id \in PostRefs, body \in CommentBodies :
          CreateComment(cred, id, body) /\ RoutesOnly
    \/ \E cred \in Credentials, id \in CommentRefs, body \in CommentUpdates :
          UpdateComment(cred, id, body) /\ RoutesOnly
    \/ \E cred \in Credentials, id \in CommentRefs :
          DeleteComment(cred, id) /\ RoutesOnly
    \/ \E r \in pending : Query(r) /\ RoutesOnly
    \/ \E r \in pending : CreatePostAnswer(r) /\ RoutesOnly
    \/ \E r \in pending : UpdatePostAnswer(r) /\ RoutesOnly
    \/ \E r \in pending : DeletePostAnswer(r) /\ RoutesOnly
    \/ \E r \in pending : CreateCommentAnswer(r) /\ RoutesOnly
    \/ \E r \in pending : UpdateCommentAnswer(r) /\ RoutesOnly
    \/ \E r \in pending : DeleteCommentAnswer(r) /\ RoutesOnly

SpecPosts == Init /\ [][NextPosts]_rvars

\* likes of the posts, and the posts deleted under them
NextLikes ==
    \/ \E cred \in Credentials, id \in PostRefs :
          LikePost(cred, id) /\ RoutesOnly
    \/ \E cred \in Credentials, id \in PostRefs :
          UnlikePost(cred, id) /\ RoutesOnly
    \/ \E cred \in Credentials, id \in CommentRefs :
          DeleteComment(cred, id) /\ RoutesOnly
    \/ \E cred \in Credentials, id \in PostRefs :
          DeletePost(cred, id) /\ RoutesOnly
    \/ \E r \in pending : Query(r) /\ RoutesOnly
    \/ \E r \in pending : LikePostAnswer(r) /\ RoutesOnly
    \/ \E r \in pending : UnlikePostAnswer(r) /\ RoutesOnly
    \/ \E r \in pending : DeleteCommentAnswer(r) /\ RoutesOnly
    \/ \E r \in pending : DeletePostAnswer(r) /\ RoutesOnly

SpecLikes == Init /\ [][NextLikes]_rvars

\* ------------------------------------------------ the store of the frontend
\* The store is created with InitialState and rehydrated by persist from what
\* it kept under its name; what it holds after that, and after every set, is
\* written back through partialize.  The first page is loaded with nothing kept.  App
\* calls initializeAuth once when it mounts, and renders the routes and the
\* navigation, from which login, register and logout are called, only while
\* isLoading is false.  A request of the store is answered or fails at any
\* later time, in any order.
MaxCalls == 2       \* requests of the store in flight at the same time

\* response.data.token of the backend for the user id
TokenOf(id) == "token_" \o id

\* the user the backend answers GET /api/users/me with
OwnerOf(token) == CHOOSE id \in KnownUsers : TokenOf(id) = token

\* get()
Snapshot ==
    [currentUser |-> currentUser, authToken |-> authToken,
     authenticationStatus |-> authenticationStatus]

\* set(...): the new state, written through to the storage
Set(st) ==
    /\ currentUser' = st.currentUser
    /\ authToken' = st.authToken
    /\ authenticationStatus' = st.authenticationStatus
    /\ storage' = Partialize(st)

\* the state after a login or a registration that succeeded
SignedIn(id) ==
    [currentUser |-> id, authToken |-> TokenOf(id),
     authenticationStatus |-> [isAuthenticated |-> TRUE, isLoading |-> FALSE]]

\* the state after a login or a registration that failed
Failed ==
    [Snapshot EXCEPT !.authenticationStatus =
        [isAuthenticated |-> FALSE, isLoading |-> FALSE]]

\* the state after logout()
SignedOut ==
    [currentUser |-> Null, authToken |-> Null,
     authenticationStatus |-> [isAuthenticated |-> FALSE, isLoading |-> FALSE]]

\* the state after initializeAuth has had its answer
Validated(id) ==
    [Snapshot EXCEPT !.currentUser = id,
                     !.authenticationStatus =
                        [isAuthenticated |-> TRUE, isLoading |-> FALSE]]

\* App has mounted, and shows the routes and the navigation: while isLoading
\* it shows the spinner in place of everything
Rendered == app = "started" /\ ~authenticationStatus.isLoading

\* axios.post / axios.get is under way
Call(action, id) ==
    /\ Cardinality(calls) < MaxCalls
    /\ calls' = calls \cup {[action |-> action, id |-> id]}

\* login(email, password), up to its await
Login(id) ==
    /\ Rendered
    /\ Call("login", id)
    /\ UNCHANGED <<currentUser, authToken, authenticationStatus, storage, app>>

\* login after its await: the answer is there (ok) or the request has failed
LoginSettle(call, ok) ==
    /\ call \in calls
    /\ call.action = "login"
    /\ calls' = calls \ {call}
    /\ IF ok THEN Set(SignedIn(call.id)) ELSE Set(Failed)
    /\ UNCHANGED app

\* register(email, password, name), up to its await
Register(id) ==
    /\ Rendered
    /\ Call("register", id)
    /\ UNCHANGED <<currentUser, authToken, authenticationStatus, storage, app>>

RegisterSettle(call, ok) ==
    /\ call \in calls
    /\ call.action = "register"
    /\ calls' = calls \ {call}
    /\ IF ok THEN Set(SignedIn(call.id)) ELSE Set(Failed)
    /\ UNCHANGED app

\* logout()
Logout ==
    /\ Rendered
    /\ Set(SignedOut)
    /\ UNCHANGED <<calls, app>>

\* the effect of App: initializeAuth(), up to its return or its await
InitializeAuth ==
    /\ app = "created"
    /\ app' = "started"
    /\ IF authToken = Null
       THEN UNCHANGED calls
       ELSE calls' = calls \cup
               {[action |-> "initializeAuth", id |-> OwnerOf(authToken)]}
    /\ UNCHANGED <<currentUser, authToken, authenticationStatus, storage>>

\* initializeAuth after its await
InitializeAuthSettle(call, ok) ==
    /\ call \in calls
    /\ call.action = "initializeAuth"
    /\ calls' = calls \ {call}
    /\ IF ok THEN Set(Validated(call.id)) ELSE Set(SignedOut)
    /\ UNCHANGED app

\* the page is loaded again: the store is created anew and rehydrated, and
\* the requests of the page that is gone are answered to nobody
Reload ==
    /\ Set(Hydrated(storage))
    /\ calls' = {}
    /\ app' = "created"

\* a step of the frontend
StoreOnly == UNCHANGED <<vars, tvars, rvars>>

NextStore ==
    \/ \E id \in KnownUsers : Login(id) /\ StoreOnly
    \/ \E call \in calls, ok \in BOOLEAN : LoginSettle(call, ok) /\ StoreOnly
    \/ \E id \in KnownUsers : Register(id) /\ StoreOnly
    \/ \E call \in calls, ok \in BOOLEAN : RegisterSettle(call, ok) /\ StoreOnly
    \/ Logout /\ StoreOnly
    \/ InitializeAuth /\ StoreOnly
    \/ \E call \in calls, ok \in BOOLEAN :
          InitializeAuthSettle(call, ok) /\ StoreOnly
    \/ Reload /\ StoreOnly

SpecStore == Init /\ [][NextStore]_fvars

\* every request of the store is answered or fails in the end
Settles ==
    \E call \in calls, ok \in BOOLEAN :
        \/ LoginSettle(call, ok)
        \/ RegisterSettle(call, ok)
        \/ InitializeAuthSettle(call, ok)

SpecStoreFair == SpecStore /\ WF_fvars(Settles /\ StoreOnly)

\* ============================================================= properties
Connected(c) == state[c] = "Authenticated"

\* the rooms whose name is in the membership set of c
InRoom(c, r) == r \in RoomsOf(sids, c)

\* ----------------------------------------------------------------------- C1
\* C1: a goal.updated event published for user u is sent to exactly the
\* connections joined to user_<u>: every connected device of u, the sender
\* included, and no connection that is only in other rooms.
C1_UserScopeExact ==
    out.ev.name = "goal.updated" =>
        /\ out.ev.user_id = user[out.from]
        /\ Recipients(out) = { c \in Conn : InRoom(c, UserRoom(out.ev.user_id)) }
        /\ Recipients(out) = { c \in Conn : Connected(c) /\ user[c] = out.ev.user_id }
        /\ out.from \in Recipients(out)

\* two devices of the user receive it while a connection of another user, in
\* the webinar room with the sender, does not
C1_Witness ==
    /\ out.ev.name = "goal.updated"
    /\ Cardinality(Recipients(out)) = 2
    /\ \E c \in Conn \ Recipients(out) :
          /\ Connected(c)
          /\ InRoom(c, WebinarRoom([num |-> 42]))
          /\ InRoom(out.from, WebinarRoom([num |-> 42]))

\* ----------------------------------------------------------------------- C2
\* C2: right after join_webinar of connection C for room R, C is a member of
\* R; right after leave_webinar, C is not; and between a leave and the next
\* join of C for R, C does not become a member of R again.
C2_JoinThenLeave ==
    /\ [](/\ out.ev.name = "webinar_joined" =>
                out.from \in MembersOf(rooms, WebinarRoom(out.ev.webinar_id))
          /\ out.ev.name = "webinar_left" =>
                out.from \notin MembersOf(rooms, WebinarRoom(out.ev.webinar_id)))
    /\ [][\A c \in Conn, w \in WebinarIds :
            (/\ c \notin MembersOf(rooms, WebinarRoom(w))
             /\ c \in MembersOf(rooms, WebinarRoom(w))')
            => /\ out'.req.name = "join_webinar"
               /\ out'.from = c
               /\ WebinarRoom(out'.req.data.webinar_id) = WebinarRoom(w)]_vars

\* a member has just left a room in which another connection remains
C2_Witness ==
    /\ out.ev.name = "webinar_left"
    /\ WebinarRoom(out.ev.webinar_id) \in out.was
    /\ MembersOf(rooms, WebinarRoom(out.ev.webinar_id)) # {}

\* ----------------------------------------------------------------------- C3
\* C3: in every reachable state a connection is in the member set of a room
\* exactly when the room is in the membership set of the connection.
AllRooms == DOMAIN rooms \cup UNION { RoomsOf(sids, c) : c \in Conn }

C3_Bidirectional ==
    \A c \in Conn, r \in AllRooms : c \in MembersOf(rooms, r) <=> InRoom(c, r)

\* a connection has left the webinar room, another is in it, a third has closed
C3_Witness ==
    /\ out.ev.name = "webinar_left"
    /\ WebinarRoom(out.ev.webinar_id) \in out.was
    /\ \E c \in Conn : InRoom(c, WebinarRoom(out.ev.webinar_id))
    /\ \E c \in Conn : state[c] = "Disconnected"

\* ----------------------------------------------------------------------- C4
\* C4: a webinar_message of connection A for webinar W is sent as
\* new_webinar_message to exactly the members of webinar_W, carries the
\* identity bound to A at connect time as sender_id, whatever the payload
\* says, and the message_text of the payload.
C4_WebinarMessage ==
    out.ev.name = "new_webinar_message" =>
        /\ out.ev.sender_id = user[out.from]
        /\ out.ev.message_text = out.req.data.message_text
        /\ Recipients(out) =
              { c \in Conn : InRoom(c, WebinarRoom(out.req.data.webinar_id)) }

\* A and B are in the room, C is connected and is not; the payload of A names
\* another sender
C4_Witness ==
    /\ out.ev.name = "new_webinar_message"
    /\ out.req.data.sender_id # user[out.from]
    /\ out.from \in Recipients(out)
    /\ Cardinality(Recipients(out)) = 2
    /\ \E c \in Conn \ Recipients(out) : Connected(c)

\* ----------------------------------------------------------------------- C5
\* C5: whatever a log_activity handler emits for a report whose quantity is not
\* positive is an error event sent to the sender alone: no activity.logged
\* and no recommendation.updated event is published for it.
C5_NoPublishForNonPositive ==
    (/\ out.req.name = "log_activity"
     /\ ~IsNull(out.req.data)
     /\ out.req.data.quantity <= 0
     /\ out.ev # NoEvent)
    => /\ out.ev.name = "error"
       /\ Recipients(out) \subseteq {out.from}

\* ----------------------------------------------------------------------- C6
\* C6: a connection attempt whose token is missing, does not verify, or names
\* no row of the users table is answered with the authentication error and
\* nothing else: the connection stays unauthenticated, has no identity, and is
\* in no room; and every connection that is accepted has a known user.
BadCredential(cred) == cred.kind # "jwt" \/ cred.user_id \notin KnownUsers

C6_RefusedOnAuthError ==
    /\ (out.phase = "connect" /\ BadCredential(out.req.data)) =>
          /\ out.ev = ConnectError
          /\ Recipients(out) = {out.from}
          /\ state[out.from] = "Unauthenticated"
          /\ user[out.from] = NoUser
          /\ out.from \notin DOMAIN sids
          /\ \A r \in DOMAIN rooms : out.from \notin rooms[r]
    /\ \A c \in Conn : state[c] # "Unauthenticated" => user[c] \in KnownUsers

\* a well-signed token of a user that has no row has just been turned down,
\* while another connection is open
C6_Witness ==
    /\ out.phase = "connect"
    /\ out.req.data.kind = "jwt"
    /\ out.req.data.user_id \notin KnownUsers
    /\ out.ev = ConnectError
    /\ \E c \in Conn : Connected(c)

\* ----------------------------------------------------------------------- C7
\* C7: a connection goes from Unauthenticated to Authenticated to
\* Disconnected and nowhere else; it has exactly one identity from the moment
\* it is Authenticated, and the identity never changes; an inbound event of a
\* connection that is not Authenticated emits nothing, changes no membership
\* and starts no handler; memberships change and handlers start only on a
\* connect, a disconnect, or an event of an Authenticated connection; and an
\* emission made after an await belongs to a handler that was started so.
C7_Lifecycle ==
    /\ [][\A c \in Conn :
            state'[c] # state[c] =>
               <<state[c], state'[c]>> \in
                  { <<"Unauthenticated", "Authenticated">>,
                    <<"Authenticated", "Disconnected">> }]_vars
    /\ [](\A c \in Conn :
            IF state[c] = "Unauthenticated"
            THEN user[c] = NoUser
            ELSE user[c] \in KnownUsers)
    /\ [][\A c \in Conn : user[c] # NoUser => user'[c] = user[c]]_vars
    /\ [][(out'.phase = "accept" /\ state[out'.from] # "Authenticated") =>
            /\ out'.ev = NoEvent
            /\ Recipients(out') = {}
            /\ UNCHANGED <<state, user, rooms, sids, inflight>>]_vars
    /\ [][(rooms' # rooms \/ sids' # sids \/ Len(inflight') > Len(inflight)) =>
            \/ out'.phase \in {"connect", "disconnect"}
            \/ /\ out'.phase = "accept"
               /\ state[out'.from] = "Authenticated"
               /\ user[out'.from] \in KnownUsers]_vars
    /\ [][out'.phase = "resume" =>
            \E i \in DOMAIN inflight : inflight[i].conn = out'.from]_vars

\* an event of a closed connection has just been ignored while another
\* connection is open
C7_Witness ==
    /\ out.phase = "accept"
    /\ out.req.name = "event"
    /\ state[out.from] = "Disconnected"
    /\ out.ev = NoEvent
    /\ \E c \in Conn : Connected(c)

\* ----------------------------------------------------------------------- C8
\* C8: a connection that has disconnected is known to no room and is sent no
\* event, whatever its scope; closing a closed connection changes nothing.
C8_AfterDisconnect ==
    /\ [](\A c \in Conn :
            state[c] = "Disconnected" =>
               /\ c \notin DOMAIN sids
               /\ \A r \in DOMAIN rooms : c \notin rooms[r]
               /\ out.to[c] = 0)
    /\ [][(out'.phase = "disconnect" /\ state[out'.from] = "Disconnected") =>
            UNCHANGED <<state, user, rooms, sids, inflight>>]_vars

\* an event is published to everyone while one connection is closed and
\* another receives it
C8_Witness ==
    /\ out.ev.name \in {"activity.logged", "challenge.progress"}
    /\ Recipients(out) # {}
    /\ \E c \in Conn : state[c] = "Disconnected" /\ user[c] = out.ev.user_id

\* ----------------------------------------------------------------------- C9
\* C9: every connection that is Authenticated is a member of the private room
\* of its identity, from the step that registers it on, and so whenever one of
\* its events is handled.
C9_PrivateRoomOnRegister ==
    \A c \in Conn :
        Connected(c) =>
           /\ InRoom(c, UserRoom(user[c]))
           /\ c \in MembersOf(rooms, UserRoom(user[c]))

\* a second device of a user has just been registered
C9_Witness ==
    /\ out.phase = "connect"
    /\ Connected(out.from)
    /\ Cardinality(MembersOf(rooms, UserRoom(user[out.from]))) = 2

\* ---------------------------------------------------------------------- C10
\* C10: the registry holds no empty room; a room nobody is in is not in the
\* registry, its member set reads as empty, and a message published to it is
\* sent to nobody and is no error.
C10_NoEmptyRoom ==
    /\ \A r \in DOMAIN rooms : rooms[r] # {}
    /\ \A w \in WebinarIds :
          (\A c \in Conn : ~InRoom(c, WebinarRoom(w))) =>
             /\ WebinarRoom(w) \notin DOMAIN rooms
             /\ MembersOf(rooms, WebinarRoom(w)) = {}
             /\ (out.ev.name = "new_webinar_message"
                   /\ WebinarRoom(out.ev.webinar_id) = WebinarRoom(w))
                => Recipients(out) = {}

\* the last member has just left the webinar room
C10_Witness ==
    /\ out.ev.name = "webinar_left"
    /\ WebinarRoom(out.ev.webinar_id) \in out.was
    /\ WebinarRoom(out.ev.webinar_id) \notin DOMAIN rooms
    /\ \E c \in Conn \ {out.from} : Connected(c)

\* ---------------------------------------------------------------------- C11
\* C11: join is idempotent: a join_webinar of a connection for a room it is
\* in already (a second join right after the first, or any later one) leaves
\* every room's member set and every connection's membership set as they
\* were, and is answered with webinar_joined, not with an error.
C11_JoinIdempotent ==
    /\ [][(/\ out'.req.name = "join_webinar"
            /\ WebinarRoom(out'.req.data.webinar_id) \in RoomsOf(sids, out'.from))
           => /\ rooms' = rooms
              /\ sids' = sids
              /\ out'.ev.name = "webinar_joined"
              /\ Recipients(out') = {out'.from}]_vars
    /\ [][(/\ out.req.name = "join_webinar"
            /\ out'.req.name = "join_webinar"
            /\ out'.from = out.from
            /\ WebinarRoom(out'.req.data.webinar_id) =
                  WebinarRoom(out.req.data.webinar_id))
           => (rooms' = rooms /\ sids' = sids)]_vars

\* the connection has joined a room that it was in already, with another member
C11_Witness ==
    /\ out.req.name = "join_webinar"
    /\ out.ev.name = "webinar_joined"
    /\ WebinarRoom(out.req.data.webinar_id) \in out.was
    /\ Cardinality(MembersOf(rooms, WebinarRoom(out.req.data.webinar_id))) = 2

\* ---------------------------------------------------------------------- C12
\* C12: when an event is published and the transport of a connection of the
\* resolved scope has failed, every other connection of the scope is still
\* written the event, nothing is written to the failed one, and the emit
\* raises no error: the handler answers with no error event and, in
\* log_activity, goes on to its next await.
C12_FanOutIsolated ==
    [][serial' # serial =>
          /\ \A c \in Conn :
                wire'[c] = IF c \in Recipients(out') \ broken
                           THEN Append(wire[c], Packet(serial', out'.ev))
                           ELSE wire[c]
          /\ out'.ev.name = "error" => IsNull(out'.req.data)
          /\ out'.ev.name = "activity.logged" =>
                \E i \in DOMAIN inflight' :
                   /\ inflight'[i].conn = out'.from
                   /\ inflight'[i].pc = "recommended"]_<<vars, tvars>>

\* activity.logged has been published while the transport of one connection
\* of its scope was down: the other connection has the packet, the failed one
\* has not
C12_Witness ==
    /\ out.ev.name = "activity.logged"
    /\ \E b \in broken :
          /\ out.to[b] > 0
          /\ \A k \in DOMAIN wire[b] : wire[b][k].id # serial
    /\ \E c \in Recipients(out) \ broken :
          \E k \in DOMAIN wire[c] : wire[c][k] = Packet(serial, out.ev)

C19_AtMostOnce ==
    /\ [](\A c \in Conn :
            /\ out.to[c] <= 1
            /\ LET all == got[c] \o wire[c]
               IN  \A i, j \in DOMAIN all : all[i].id = all[j].id => i = j)
    /\ [][\A c \in Conn : \A k \in DOMAIN wire'[c] :
            \/ \E m \in DOMAIN wire[c] : wire[c][m] = wire'[c][k]
            \/ /\ serial' = serial + 1
               /\ wire'[c][k].id = serial'
               /\ c \notin broken]_<<vars, tvars>>

\* two emits have been made; the last was dropped for a connection of its
\* scope whose transport is down and which has been written nothing, while a
\* connection that is in three rooms has one packet of each emit
C19_Witness ==
    /\ serial = 2
    /\ \E b \in broken :
          /\ out.to[b] = 1
          /\ wire[b] = <<>>
          /\ got[b] = <<>>
    /\ \E c \in Conn :
          /\ Cardinality(RoomsOf(sids, c)) = 3
          /\ Len(got[c] \o wire[c]) = 2

\* ---------------------------------------------------------------------- C14
\* C14: the activity.logged event of a log_activity with a positive quantity
\* carries the identity of the sender and is sent to every connected
\* connection; the recommendation.updated event that follows it is sent to
\* every connection that is in the room user_<id> of the sender's identity,
\* and to no other.
C14_RecommendationToUserScope ==
    /\ (out.ev.name = "activity.logged" /\ out.req.data.quantity > 0) =>
          /\ out.ev.user_id = user[out.from]
          /\ Recipients(out) = { c \in Conn : Connected(c) }
    /\ (out.ev.name = "recommendation.updated" /\ out.req.data.quantity > 0) =>
          /\ out.ev.user_id = user[out.from]
          /\ Recipients(out) =
                { c \in Conn : InRoom(c, UserRoom(out.ev.user_id)) }

\* ---------------------------------------------------------------------- C15
\* C15: whatever a log_activity handler emits for a report whose category is
\* not a category of the table, or that lacks category, quantity or unit, is
\* an error event sent to the sender alone: no activity.logged is published.
C15_ValidationError ==
    (/\ out.req.name = "log_activity"
     /\ ~IsNull(out.req.data)
     /\ \/ Field(out.req.data, "category") \notin DOMAIN EmissionFactors
        \/ {"category", "quantity", "unit"} \ DOMAIN out.req.data # {}
     /\ out.ev # NoEvent)
    => /\ out.ev.name = "error"
       /\ Recipients(out) \subseteq {out.from}

\* ---------------------------------------------------------------------- C17
\* C17: for a report with a positive quantity whose category and unit are a
\* pair of the table, the impact of the activity.logged event is the quantity
\* times the factor of the pair (transportation / car_km, quantity 10: 2.0).
C17_ImpactOfTablePair ==
    (/\ out.ev.name = "activity.logged"
     /\ {"category", "quantity", "unit"} \subseteq DOMAIN out.req.data
     /\ InTable(out.req.data.category, out.req.data.unit)
     /\ out.req.data.quantity > 0)
    => out.ev.impact =
          [num |-> out.req.data.quantity *
                   EmissionFactors[out.req.data.category][out.req.data.unit]]

\* 10 km by car have been published with the impact 2.00
C17_Witness ==
    /\ out.ev.name = "activity.logged"
    /\ out.req.data = [category |-> "transportation", quantity |-> 10,
                       unit |-> "car_km", description |-> "commute"]
    /\ out.ev.impact = [num |-> 200]

\* ---------------------------------------------------------------------- C18
\* C18: for a report whose category and unit are not a pair of the table, the
\* handler does not fail and the impact of the activity.logged event is the
\* quantity (the factor is 1).
C18_DefaultFactor ==
    (/\ out.req.name = "log_activity"
     /\ ~IsNull(out.req.data)
     /\ "quantity" \in DOMAIN out.req.data
     /\ ~InTable(Field(out.req.data, "category"), Field(out.req.data, "unit"))
     /\ out.ev # NoEvent)
    => /\ out.ev.name # "error"
       /\ out.ev.name = "activity.logged" =>
             out.ev.impact = [num |-> out.req.data.quantity * 100]

\* ---------------------------------------------------------------------- C16
\* C16: when the handling of an event of connection C fails, the error event
\* is sent to C and to no other connection, other connections of C's user
\* included, and the failed step does nothing else: no membership changes
\* and no handler is left suspended.
C16_ErrorToSenderOnly ==
    /\ [](out.ev.name = "error" =>
            /\ out.req.name \in {"log_activity", "update_goal",
                                  "update_challenge_progress", "webinar_message"}
            /\ Recipients(out) = {out.from})
    /\ [][out'.ev.name = "error" /\ out' # out =>
            UNCHANGED <<state, user, rooms, sids, inflight>>]_vars

\* a handler has failed for a connection whose user has another connection
\* open; a third connection is in the webinar room with the sender
C16_Witness ==
    /\ out.ev.name = "error"
    /\ \E c \in Conn \ {out.from} :
          /\ Connected(c)
          /\ user[c] = user[out.from]
          /\ out.to[c] = 0
    /\ \E c \in Conn \ {out.from} :
          /\ InRoom(c, WebinarRoom([num |-> 42]))
          /\ InRoom(out.from, WebinarRoom([num |-> 42]))

\* ---------------------------------------------------------------------- C20
\* C20: a leave_webinar of a connection for a room it is not in leaves every
\* room's member set and every connection's membership set as they were.
C20_LeaveNotJoined ==
    [][(/\ out'.req.name = "leave_webinar"
        /\ out' # out
        /\ WebinarRoom(out'.req.data.webinar_id) \notin RoomsOf(sids, out'.from))
       => (rooms' = rooms /\ sids' = sids)]_vars

\* a connection has left a room it was not in, while another connection is
\* in that room
C20_Witness ==
    /\ out.req.name = "leave_webinar"
    /\ WebinarRoom(out.req.data.webinar_id) \notin out.was
    /\ MembersOf(rooms, WebinarRoom(out.req.data.webinar_id)) # {}

\* ---------------------------------------------------------------------- C24
\* C24: a disconnect does not cancel the log_activity handlers that its
\* connection has in flight; when such a handler resumes after the
\* disconnect, activity.logged is still sent to every connection that is
\* connected then, nothing is sent to the closed connection, no error event
\* is raised and the handler goes on; its recommendation.updated is sent to
\* nobody.
C24_InFlightAfterDisconnect ==
    /\ [][out'.phase = "disconnect" => inflight' = inflight]_vars
    /\ []((out.phase = "resume" /\ state[out.from] = "Disconnected") =>
            /\ out.ev.name \in {"activity.logged", "recommendation.updated"}
            /\ out.to[out.from] = 0
            /\ out.ev.name = "activity.logged" =>
                  /\ Recipients(out) = { c \in Conn : Connected(c) }
                  /\ \E i \in DOMAIN inflight :
                        /\ inflight[i].conn = out.from
                        /\ inflight[i].pc = "recommended"
            /\ out.ev.name = "recommendation.updated" => Recipients(out) = {})

\* activity.logged of a connection that closed while its handler was
\* suspended has been sent to the two connections that remain
C24_Witness ==
    /\ out.phase = "resume"
    /\ out.ev.name = "activity.logged"
    /\ state[out.from] = "Disconnected"
    /\ Cardinality(Recipients(out)) = 2

\* ---------------------------------------------------------------------- C30
\* C30: new_webinar_message is sent to exactly the connections that are
\* members of the webinar room when it is emitted, whether or not the sender
\* is one of them: a sender that is a member is sent its own message, and a
\* sender that is not is sent nothing while the members are.
C30_RecipientsAreMembers ==
    out.ev.name = "new_webinar_message" =>
        /\ Recipients(out) =
              MembersOf(rooms, WebinarRoom(out.req.data.webinar_id))
        /\ out.from \in Recipients(out) <=>
              WebinarRoom(out.req.data.webinar_id) \in out.was

\* a connection that is not in the webinar room has sent a message to the two
\* connections that are
C30_Witness ==
    /\ out.ev.name = "new_webinar_message"
    /\ WebinarRoom(out.req.data.webinar_id) \notin out.was
    /\ out.to[out.from] = 0
    /\ Cardinality(Recipients(out)) = 2

\* ---------------------------------------------------------------------- C25
\* C25: a connected connection is in the private room user_<v> exactly when
\* v is its identity, whatever rooms its client has joined or left, and
\* whatever the webinar ids it sent spell.
C25_OwnPrivateRoomOnly ==
    \A c \in Conn : Connected(c) =>
        \A v \in KnownUsers \cup {"ghost"} :
            /\ InRoom(c, UserRoom(v)) <=> v = user[c]
            /\ c \in MembersOf(rooms, UserRoom(v)) <=> v = user[c]

\* a connection of u1 has joined the webinar whose id spells user_u2 and has
\* left the one whose id spells user_u1
C25_Witness ==
    /\ out.req.name = "leave_webinar"
    /\ out.req.data.webinar_id = [str |-> "user_u1"]
    /\ user[out.from] = "u1"
    /\ InRoom(out.from, WebinarRoom([str |-> "user_u2"]))
    /\ \E c \in Conn \ {out.from} : Connected(c) /\ user[c] = "u2"

\* ---------------------------------------------------------------------- C21
\* C21: a POST /api/posts by an authenticated user whose body does not pass
\* the schema (the title is missing) is answered 400, stores no post and
\* emits no event
C21_InvalidPostIs400 ==
    [][\A cred \in Credentials, body \in PostBodies :
          ( /\ AuthenticateToken(cred).status = 0
            /\ ~CreatePostInputParses(body)
            /\ CreatePost(cred, body) )
          => /\ res'.status = 400
             /\ posts' = posts
             /\ res'.emit = NoEvent]_rvars

\* ---------------------------------------------------------------------- C22
UniqueUsers ==
    \A a, b \in users :
        a # b => a.id # b.id /\ a.username # b.username /\ a.email # b.email

\* the name and the address of the row are those of no stored user
Fresh(row) ==
    \A u \in users : u.username # row.username /\ u.email # row.email

\* the INSERT of a signup stores exactly its row when the name and the
\* address are fresh, and nothing when one of them is taken
SignupInsert(r) ==
    IF Fresh(r.stmt.row)
    THEN /\ r.stmt.row \notin users
         /\ users' = users \cup {r.stmt.row}
         /\ \E q \in pending' : q.n = r.n /\ q.result.done /\ ~q.result.threw
    ELSE /\ users' = users
         /\ \E q \in pending' : q.n = r.n /\ q.result.done /\ q.result.threw

\* the answer of a signup is 201 when its row is stored, and else an error
\* with no row of it in the store
SignupAnswered ==
    /\ users' = users
    /\ res'.status \in {201, 400, 500}
    /\ res'.status = 201 <=> \E u \in users : u.id = Uuid(res'.n)

\* C22: whatever signups are made and however they interleave, no two stored
\* users share a username or an email; a signup whose name and address are
\* fresh stores exactly one user and is answered 201, and one whose name or
\* address is taken stores none and is answered with an error
C22_SignupUnique ==
    /\ []UniqueUsers
    /\ [][ /\ \A r \in pending :
                (r.route = "signup" /\ Query(r)) => SignupInsert(r)
           /\ \A body \in SignupBodies :
                (Taken(body) /\ Signup(body)) =>
                    res'.status \in {400, 500} /\ users' = users
           /\ res'.route = "signup" => SignupAnswered ]_rvars

\* two signups with the same name raced: one is stored, the INSERT of the
\* other has thrown
C22_Witness ==
    \E r \in pending, u \in users :
        /\ r.route = "signup" /\ r.result.done /\ r.result.threw
        /\ u \notin SeedUsers
        /\ u.username = r.stmt.row.username

\* ---------------------------------------------------------------------- C23
PostEvents == {"post.created", "post.updated", "post.deleted"}

\* the write behind the event ev has succeeded in the store: the request r
\* that emits it has had its statement executed without an error, with the
\* row of the event as its result
WriteSucceeded(r, ev) ==
    /\ r.result.done
    /\ ~r.result.threw
    /\ CASE ev.name = "post.created" ->
                r.stmt.op = "INSERT posts" /\ r.result.rows = {ev.row}
          [] ev.name = "post.updated" ->
                r.stmt.op = "UPDATE posts" /\ ev.row \in r.result.rows
          [] ev.name = "post.deleted" ->
                /\ r.stmt.op = "DELETE posts"
                /\ r.stmt.id = ev.row.id
                /\ \A p \in posts : p.id # ev.row.id

\* what the store reports of a write on posts is what it did
WriteReported(r) ==
    \E q \in pending' :
        /\ q.n = r.n
        /\ q.result.threw => posts' = posts
        /\ CASE r.stmt.op = "INSERT posts" ->
                    ~q.result.threw =>
                        r.stmt.row \notin posts /\ posts' = posts \cup {r.stmt.row}
              [] r.stmt.op = "UPDATE posts" -> q.result.rows \subseteq posts'
              [] r.stmt.op = "DELETE posts" ->
                    ~q.result.threw => \A p \in posts' : p.id # r.stmt.id
              [] OTHER -> posts' = posts

\* C23: post.created, post.updated and post.deleted are emitted only after
\* the insert, update or delete behind them has succeeded in the store; a
\* request that is rejected or whose write fails emits nothing
C23_PublishAfterWrite ==
    [][ /\ \A r \in pending : Query(r) => WriteReported(r)
        /\ res'.emit.name \in PostEvents =>
               /\ res'.status \in {200, 201, 204}
               /\ posts' = posts
               /\ \E r \in pending : r.n = res'.n /\ WriteSucceeded(r, res'.emit)
        /\ res'.status \in {400, 401, 403, 404, 500} => res'.emit = NoEvent
      ]_rvars

\* post.deleted has been emitted, and the post is gone from the store
C23_Witness ==
    /\ res.emit.name = "post.deleted"
    /\ \A p \in posts : p.id # res.emit.row.id

\* ---------------------------------------------------------------------- C26
\* the answer to a request of somebody who is not the author
Refused ==
    /\ res'.status = 403
    /\ res'.emit = NoEvent
    /\ posts' = posts
    /\ comments' = comments

\* C26: a PATCH or DELETE of a post by an authenticated user who is not its
\* author is answered 403, leaves the post as it is and emits nothing, and
\* so for a comment and its author; a row of posts or comments is changed or
\* removed only by a statement of a request of its author
C26_AuthorOnly ==
    [][ /\ \A cred \in Credentials, id \in PostRefs :
              LET auth == AuthenticateToken(cred)
                  foreign == /\ auth.status = 0
                             /\ \E p \in posts : p.id = id /\ p.user_id # auth.id
              IN /\ \A body \in PostUpdates :
                        (foreign /\ UpdatePost(cred, id, body)) => Refused
                 /\ (foreign /\ DeletePost(cred, id)) => Refused
        /\ \A cred \in Credentials, id \in CommentRefs :
              LET auth == AuthenticateToken(cred)
                  foreign == /\ auth.status = 0
                             /\ \E c \in comments :
                                    c.id = id /\ c.user_id # auth.id
              IN /\ \A body \in CommentUpdates :
                        (foreign /\ UpdateComment(cred, id, body)) => Refused
                 /\ (foreign /\ DeleteComment(cred, id)) => Refused
        /\ \A p \in posts \cup comments :
              p \notin posts' \cup comments' =>
                  \E r \in pending : Query(r) /\ r.user = p.user_id
      ]_rvars

\* u2 has asked to change or delete a post or comment of u1 and got 403
C26_Witness ==
    /\ res.route \in {"update post", "delete post",
                      "update comment", "delete comment"}
    /\ res.status = 403
    /\ res.user = "u2"
    /\ \E p \in posts : p.user_id = "u1"
    /\ \A p \in posts \cup comments : p.user_id = "u1"

\* ---------------------------------------------------------------------- C27
AtMostOneLike ==
    \A a, b \in likes :
        (a.user_id = b.user_id /\ a.post_id = b.post_id) => a = b

Liked(id, post_id) ==
    \E l \in likes : l.user_id = id /\ l.post_id = post_id

\* C27: however the like requests of a user for a post interleave, there is
\* at most one like of the pair; like.created is emitted once for a like, by
\* the request whose INSERT stored it; a like request for a post that is
\* already liked, whether the SELECT or the INSERT finds the like, stores
\* nothing and emits nothing
C27_LikeOnce ==
    /\ []AtMostOneLike
    /\ [][ /\ res'.emit.name = "like.created" =>
                 /\ \E r \in pending :
                       /\ r.n = res'.n
                       /\ r.result.done /\ ~r.result.threw
                       /\ r.result.rows = {res'.emit.row}
                       /\ r.n = res'.emit.row.created_at
                 /\ \A q \in pending' : q.n # res'.n
           /\ \A cred \in Credentials, id \in PostRefs :
                 LET auth == AuthenticateToken(cred) IN
                   (auth.status = 0 /\ Liked(auth.id, id) /\ LikePost(cred, id))
                   => res'.status = 400 /\ res'.emit = NoEvent /\ likes' = likes
           /\ \A r \in pending :
                 ( /\ r.stmt.op = "INSERT likes"
                   /\ Liked(r.user, r.stmt.row.post_id)
                   /\ Query(r) )
                 => /\ likes' = likes
                    /\ \E q \in pending' : q.n = r.n /\ q.result.threw
           /\ (res'.route = "like" /\ res'.status # 201) =>
                 res'.emit = NoEvent /\ likes' = likes
         ]_rvars

\* two like requests of a user for a post raced: one like is stored, the
\* INSERT of the other request has thrown
C27_Witness ==
    \E r \in pending :
        /\ r.route = "like" /\ r.result.done /\ r.result.threw
        /\ Liked(r.user, r.stmt.row.post_id)

\* ---------------------------------------------------------------------- C28
\* C28: in every state of the store, isAuthenticated implies that authToken
\* and currentUser are both set
C28_AuthenticatedHasSession ==
    authenticationStatus.isAuthenticated =>
        authToken # Null /\ currentUser # Null

\* ---------------------------------------------------------------------- C29
\* C29: once App has called initializeAuth, isLoading becomes false
C29_LoadingEnds ==
    (app = "started") ~> ~authenticationStatus.isLoading

====
